---- MODULE Spec2Model ----
(***************************************************************************)
(* Model of the ofelia job scheduler: core.Scheduler, its jobWrapper tick  *)
(* adapter, core.BareJob's running counter and core.RunJob's container     *)
(* lifecycle driver.                                                       *)
(*                                                                         *)
(* Spec      : the scheduler lifecycle (AddJob / Start / Stop) with        *)
(*             concurrent cron ticks, each tick a jobWrapper.Run that      *)
(*             walks the job's middleware chain.                           *)
(* SpecRunJob: one call of RunJob.Run against a nondeterministic           *)
(*             container runtime.                                          *)
(***************************************************************************)
EXTENDS Integers, Sequences, FiniteSets, TLC

(* ------------------------------ bounds --------------------------------- *)

\* Number of cron ticks (jobWrapper.Run goroutines) one behaviour spawns.
MaxTicks == 2

(* --------------------------- jobs and errors --------------------------- *)

\* The jobs the caller may hand to AddJob.  "jEmpty" has an empty schedule,
\* "jBad" a schedule the cron trigger cannot parse.
JobIds == {"jOverlap", "jPlain", "jEmpty", "jBad"}

GetSchedule(j) ==
    CASE j = "jEmpty" -> ""
      [] j = "jBad"   -> "not a schedule"
      [] OTHER        -> "@every 1s"

\* The cron trigger's parser: the schedules it rejects in cron.AddJob.
CronParses(schedule) == schedule = "@every 1s"

ErrNil            == "nil"
ErrAlreadyStarted == "scheduler has already started"
ErrAlreadyStopped == "scheduler has already stopped"
ErrEmptyScheduler == "unable to start a empty scheduler"
ErrEmptySchedule  == "unable to add a job with a empty schedule"
ErrCronParse      == "cron: schedule does not parse"

\* Global middlewares registered on the scheduler (buildSchedulerMiddlewares).
Globals == <<"gSlack", "gSave">>

\* Job-specific middlewares registered by buildMiddlewares: the overlap
\* middleware is installed only for the job configured with no-overlap.
JobMiddlewares(j) == IF j = "jOverlap" THEN <<"overlap">> ELSE << >>

VARIABLES
    Jobs,           \* Scheduler.Jobs: sequence of registered jobs
    cronEntries,    \* entries registered with the cron trigger
    cronRunning,    \* the cron trigger is started
    isRunning,      \* Scheduler.isRunning
    wg,             \* Scheduler.wg counter
    mws,            \* per job: its middleware list (middlewareContainer)
    running,        \* per job: BareJob.running
    runs,           \* per tick: the jobWrapper.Run goroutine
    nextRun,        \* number of ticks fired so far
    stopPc,         \* position of the caller inside Stop
    inFlightAtStop, \* inside Stop: runs registered with wg at its call
    lastOp,         \* last lifecycle call that returned
    lastErr,        \* its result
    startLen,       \* len(Jobs) at the last successful Start
    stoppedOnce,    \* some Stop has returned nil
    crashed,        \* a panic left a run goroutine unrecovered
    rj              \* the RunJob.Run call of SpecRunJob

vars == <<Jobs, cronEntries, cronRunning, isRunning, wg, mws, running, runs,
          nextRun, stopPc, inFlightAtStop, lastOp, lastErr, startLen,
          stoppedOnce, crashed, rj>>

schedVars == <<Jobs, cronEntries, cronRunning, isRunning, wg, mws, running,
               runs, nextRun, stopPc, inFlightAtStop, lastOp, lastErr,
               startLen, stoppedOnce, crashed>>

RunIds == 1..MaxTicks

NoRun == [job |-> "none", pc |-> "none", chain |-> << >>, cur |-> 0,
          skipped |-> FALSE, failed |-> FALSE, log |-> << >>]

Range(s) == {s[i] : i \in 1..Len(s)}

Count(s, x) == Cardinality({i \in 1..Len(s) : s[i] = x})

\* rj while no RunJob.Run is modelled.
RjIdle == [pc |-> "idle"]

(* ------------------- middlewareContainer and BareJob -------------------- *)

\* middlewareContainer.Use: registers each middleware of ms, in order, that
\* the container does not hold yet.
RECURSIVE Use(_, _)
Use(list, ms) ==
    IF ms = << >> THEN list
    ELSE Use(IF Head(ms) \in Range(list) THEN list ELSE Append(list, Head(ms)),
             Tail(ms))

\* BareJob.Running / NotifyStart / NotifyStop on the per-job counters.
Running(c, j) == c[j]

\* NotifyStart that loses the increment.
NotifyStartLost(c, j) == c

NotifyStart(c, j) == [c EXCEPT ![j] = @ + 1]

NotifyStop(c, j) == [c EXCEPT ![j] = @ - 1]

\* Context.Start and Context.Stop: the bookkeeping on the Execution, and the
\* NotifyStart / NotifyStop of the job, once per run.
ContextStart(c, j) == NotifyStart(c, j)

ContextStop(c, j) == NotifyStop(c, j)

(* ------------------------------ Scheduler ------------------------------- *)

SchedInit ==
    /\ Jobs = << >>
    /\ cronEntries = << >>
    /\ cronRunning = FALSE
    /\ isRunning = FALSE
    /\ wg = 0
    /\ mws = [j \in JobIds |-> JobMiddlewares(j)]
    /\ running = [j \in JobIds |-> 0]
    /\ runs = [r \in RunIds |-> NoRun]
    /\ nextRun = 0
    /\ stopPc = "idle"
    /\ inFlightAtStop = {}
    /\ lastOp = "none"
    /\ lastErr = ErrNil
    /\ startLen = 0
    /\ stoppedOnce = FALSE
    /\ crashed = FALSE

Init == SchedInit /\ rj = RjIdle

\* The single caller of the lifecycle methods is between two calls.
CallerFree == ~crashed /\ stopPc = "idle"

\* AddJob that appends to the registry before it validates the schedule.
AddJobAppendsFirst(j) ==
    /\ CallerFree
    /\ j \notin Range(Jobs)
    /\ lastOp' = "AddJob"
    /\ Jobs' = Append(Jobs, j)
    /\ IF GetSchedule(j) = ""
         THEN /\ lastErr' = ErrEmptySchedule
              /\ UNCHANGED cronEntries
         ELSE IF ~CronParses(GetSchedule(j))
           THEN /\ lastErr' = ErrCronParse
                /\ UNCHANGED cronEntries
           ELSE /\ cronEntries' = Append(cronEntries, j)
                /\ lastErr' = ErrNil
    /\ UNCHANGED <<cronRunning, isRunning, wg, mws, running, runs, nextRun,
                   stopPc, inFlightAtStop, startLen, stoppedOnce, crashed, rj>>

\* Scheduler.AddJob.  The caller hands each job object over once, as
\* Config.build does.
AddJob(j) ==
    /\ CallerFree
    /\ j \notin Range(Jobs)
    /\ lastOp' = "AddJob"
    /\ IF GetSchedule(j) = ""
         THEN /\ lastErr' = ErrEmptySchedule
              /\ UNCHANGED <<Jobs, cronEntries>>
         ELSE IF ~CronParses(GetSchedule(j))
           THEN /\ lastErr' = ErrCronParse
                /\ UNCHANGED <<Jobs, cronEntries>>
           ELSE /\ cronEntries' = Append(cronEntries, j)
                /\ Jobs' = Append(Jobs, j)
                /\ lastErr' = ErrNil
    /\ UNCHANGED <<cronRunning, isRunning, wg, mws, running, runs, nextRun,
                   stopPc, inFlightAtStop, startLen, stoppedOnce, crashed, rj>>

\* mergeMiddlewares that stops after the first job of the registry.
mergeFirstJobOnly(jobs, m) ==
    IF jobs = << >> THEN m
    ELSE [m EXCEPT ![Head(jobs)] = Use(@, Globals)]

\* Scheduler.mergeMiddlewares: j.Use(s.Middlewares()...) for every job of
\* the registry, in order.
\* A merge that puts the global middlewares in front of the job's own.
RECURSIVE mergeGlobalsFirst(_, _)
mergeGlobalsFirst(jobs, m) ==
    IF jobs = << >> THEN m
    ELSE mergeGlobalsFirst(Tail(jobs), [m EXCEPT ![Head(jobs)] = Use(Globals, @)])

RECURSIVE mergeMiddlewares(_, _)
mergeMiddlewares(jobs, m) ==
    IF jobs = << >> THEN m
    ELSE mergeMiddlewares(Tail(jobs), [m EXCEPT ![Head(jobs)] = Use(@, Globals)])

\* Start without the already-started test.
StartUnguarded ==
    /\ CallerFree
    /\ lastOp' = "Start"
    /\ IF Len(Jobs) = 0
         THEN /\ lastErr' = ErrEmptyScheduler
              /\ UNCHANGED <<mws, isRunning, cronRunning, startLen>>
         ELSE /\ mws' = mergeMiddlewares(Jobs, mws)
              /\ isRunning' = TRUE
              /\ cronRunning' = TRUE
              /\ startLen' = Len(Jobs)
              /\ lastErr' = ErrNil
    /\ UNCHANGED <<Jobs, cronEntries, wg, running, runs, nextRun, stopPc,
                   inFlightAtStop, stoppedOnce, crashed, rj>>

\* Scheduler.Start
Start ==
    /\ CallerFree
    /\ lastOp' = "Start"
    /\ IF isRunning
         THEN /\ lastErr' = ErrAlreadyStarted
              /\ UNCHANGED <<mws, isRunning, cronRunning, startLen>>
         ELSE IF Len(Jobs) = 0
           THEN /\ lastErr' = ErrEmptyScheduler
                /\ UNCHANGED <<mws, isRunning, cronRunning, startLen>>
           ELSE /\ mws' = mergeMiddlewares(Jobs, mws)
                /\ isRunning' = TRUE
                /\ cronRunning' = TRUE
                /\ startLen' = Len(Jobs)
                /\ lastErr' = ErrNil
    /\ UNCHANGED <<Jobs, cronEntries, wg, running, runs, nextRun, stopPc,
                   inFlightAtStop, stoppedOnce, crashed, rj>>

\* Positions of a jobWrapper.Run between wg.Add(1) and the deferred wg.Done.
InFlightPcs == {"entered", "chain", "body", "post", "unwound", "stopped"}

\* Positions of a run between Context.Start and Context.Stop.
ActivePcs == {"chain", "body", "post", "unwound"}

InFlight == {r \in RunIds : runs[r].pc \in InFlightPcs}

\* Scheduler.Stop, up to the call of wg.Wait.
StopCall ==
    /\ CallerFree
    /\ IF ~isRunning
         THEN /\ lastOp' = "Stop"
              /\ lastErr' = ErrAlreadyStopped
              /\ UNCHANGED <<stopPc, inFlightAtStop>>
         ELSE /\ stopPc' = "wait"
              /\ inFlightAtStop' = InFlight
              /\ UNCHANGED <<lastOp, lastErr>>
    /\ UNCHANGED <<Jobs, cronEntries, cronRunning, isRunning, wg, mws, running,
                   runs, nextRun, startLen, stoppedOnce, crashed, rj>>

\* Stop that does not wait for the counter to reach zero.
StopDrainedNoWait ==
    /\ ~crashed
    /\ stopPc = "wait"
    /\ stopPc' = "drained"
    /\ UNCHANGED <<Jobs, cronEntries, cronRunning, isRunning, wg, mws, running,
                   runs, nextRun, inFlightAtStop, lastOp, lastErr, startLen,
                   stoppedOnce, crashed, rj>>

\* Scheduler.Stop: wg.Wait returns once the counter is zero.
StopDrained ==
    /\ ~crashed
    /\ stopPc = "wait"
    /\ wg = 0
    /\ stopPc' = "drained"
    /\ UNCHANGED <<Jobs, cronEntries, cronRunning, isRunning, wg, mws, running,
                   runs, nextRun, inFlightAtStop, lastOp, lastErr, startLen,
                   stoppedOnce, crashed, rj>>

\* Scheduler.Stop after wg.Wait: cron.Stop, the flag, the return.
StopFinish ==
    /\ ~crashed
    /\ stopPc = "drained"
    /\ cronRunning' = FALSE
    /\ isRunning' = FALSE
    /\ stopPc' = "idle"
    /\ lastOp' = "Stop"
    /\ lastErr' = ErrNil
    /\ stoppedOnce' = TRUE
    /\ inFlightAtStop' = {}
    /\ UNCHANGED <<Jobs, cronEntries, wg, mws, running, runs, nextRun,
                   startLen, crashed, rj>>

(* ------------------------- cron ticks, jobWrapper ----------------------- *)

\* The started cron trigger fires an entry: it spawns a goroutine that will
\* call jobWrapper.Run.
Tick(j) ==
    /\ ~crashed
    /\ cronRunning
    /\ j \in Range(cronEntries)
    /\ nextRun < MaxTicks
    /\ nextRun' = nextRun + 1
    /\ runs' = [runs EXCEPT ![nextRun + 1] = [NoRun EXCEPT !.job = j, !.pc = "fired"]]
    /\ UNCHANGED <<Jobs, cronEntries, cronRunning, isRunning, wg, mws, running,
                   stopPc, inFlightAtStop, lastOp, lastErr, startLen, stoppedOnce, crashed, rj>>

\* jobWrapper.Run: wg.Add(1), NewExecution, NewContext (which resolves the
\* job's middleware chain).
RunEnter(r) ==
    /\ ~crashed
    /\ runs[r].pc = "fired"
    /\ wg' = wg + 1
    /\ runs' = [runs EXCEPT ![r].pc = "entered", ![r].chain = mws[runs[r].job]]
    /\ UNCHANGED <<Jobs, cronEntries, cronRunning, isRunning, mws, running,
                   nextRun, stopPc, inFlightAtStop, lastOp, lastErr, startLen,
                   stoppedOnce, crashed, rj>>

\* A start of the run that does not call ctx.Start.
RunStartNoContextStart(r) ==
    /\ ~crashed
    /\ runs[r].pc = "entered"
    /\ runs' = [runs EXCEPT ![r].pc = "chain"]
    /\ UNCHANGED <<Jobs, cronEntries, cronRunning, isRunning, wg, mws, running,
                   nextRun, stopPc, inFlightAtStop, lastOp, lastErr, startLen,
                   stoppedOnce, crashed, rj>>

\* jobWrapper.start: ctx.Start().
RunStart(r) ==
    /\ ~crashed
    /\ runs[r].pc = "entered"
    /\ running' = ContextStart(running, runs[r].job)
    /\ runs' = [runs EXCEPT ![r].pc = "chain"]
    /\ UNCHANGED <<Jobs, cronEntries, cronRunning, isRunning, wg, mws, nextRun,
                   stopPc, inFlightAtStop, lastOp, lastErr, startLen, stoppedOnce, crashed, rj>>

\* The overlap middleware's test: a run other than the consulting one (which
\* has already called NotifyStart) is active.
OverlapDetected(c, j) == Running(c, j) > 1

\* Context.Next: enter the next middleware of the chain, or the job body
\* after the last one.  The overlap middleware does not call Next when it
\* detects an overlap: it marks the Execution skipped and unwinds.
ChainNext(r) ==
    /\ ~crashed
    /\ runs[r].pc = "chain"
    /\ IF runs[r].cur < Len(runs[r].chain)
         THEN IF /\ runs[r].chain[runs[r].cur + 1] = "overlap"
                 /\ OverlapDetected(running, runs[r].job)
                THEN runs' = [runs EXCEPT ![r].cur = @ + 1, ![r].skipped = TRUE,
                                          ![r].pc = "unwound"]
                ELSE runs' = [runs EXCEPT ![r].cur = @ + 1]
         ELSE runs' = [runs EXCEPT ![r].pc = "body"]
    /\ UNCHANGED <<Jobs, cronEntries, cronRunning, isRunning, wg, mws, running,
                   nextRun, stopPc, inFlightAtStop, lastOp, lastErr, startLen,
                   stoppedOnce, crashed, rj>>

\* Job.Run returns (nil or an error) and the chain unwinds.
BodyReturn(r, failed) ==
    /\ ~crashed
    /\ runs[r].pc = "body"
    /\ runs' = [runs EXCEPT ![r].pc = "unwound", ![r].failed = failed]
    /\ UNCHANGED <<Jobs, cronEntries, cronRunning, isRunning, wg, mws, running,
                   nextRun, stopPc, inFlightAtStop, lastOp, lastErr, startLen,
                   stoppedOnce, crashed, rj>>

\* A panic in a Run whose wg.Done is not deferred.
BodyPanicNoDone(r) ==
    /\ ~crashed
    /\ runs[r].pc = "body"
    /\ runs' = [runs EXCEPT ![r].pc = "panicked"]
    /\ crashed' = TRUE
    /\ UNCHANGED <<Jobs, cronEntries, cronRunning, isRunning, wg, mws, running,
                   nextRun, stopPc, inFlightAtStop, lastOp, lastErr, startLen,
                   stoppedOnce, rj>>

\* Job.Run panics: ctx.Next does not return, jobWrapper.stop is not reached,
\* the deferred wg.Done runs and the panic leaves the goroutine.
BodyPanic(r) ==
    /\ ~crashed
    /\ runs[r].pc = "body"
    /\ wg' = wg - 1
    /\ runs' = [runs EXCEPT ![r].pc = "panicked"]
    /\ crashed' = TRUE
    /\ UNCHANGED <<Jobs, cronEntries, cronRunning, isRunning, mws, running,
                   nextRun, stopPc, inFlightAtStop, lastOp, lastErr, startLen,
                   stoppedOnce, rj>>

\* jobWrapper.stop: ctx.Stop(err), then the summary is logged.
RunStop(r) ==
    /\ ~crashed
    /\ runs[r].pc = "unwound"
    /\ running' = ContextStop(running, runs[r].job)
    /\ runs' = [runs EXCEPT ![r].pc = "stopped"]
    /\ UNCHANGED <<Jobs, cronEntries, cronRunning, isRunning, wg, mws, nextRun,
                   stopPc, inFlightAtStop, lastOp, lastErr, startLen, stoppedOnce, crashed, rj>>

\* jobWrapper.Run returns: the deferred wg.Done; the Context and the
\* Execution are discarded.
RunExit(r) ==
    /\ ~crashed
    /\ runs[r].pc = "stopped"
    /\ wg' = wg - 1
    /\ runs' = [runs EXCEPT ![r] = [NoRun EXCEPT !.job = runs[r].job, !.pc = "done"]]
    /\ UNCHANGED <<Jobs, cronEntries, cronRunning, isRunning, mws, running,
                   nextRun, stopPc, inFlightAtStop, lastOp, lastErr, startLen,
                   stoppedOnce, crashed, rj>>

Next ==
    \/ \E j \in JobIds : AddJob(j)
    \/ Start
    \/ StopCall
    \/ StopDrained
    \/ StopFinish
    \/ \E j \in JobIds : Tick(j)
    \/ \E r \in RunIds : RunEnter(r)
    \/ \E r \in RunIds : RunStart(r)
    \/ \E r \in RunIds : ChainNext(r)
    \/ \E r \in RunIds, failed \in BOOLEAN : BodyReturn(r, failed)
    \/ \E r \in RunIds : BodyPanic(r)
    \/ \E r \in RunIds : RunStop(r)
    \/ \E r \in RunIds : RunExit(r)

Spec == Init /\ [][Next]_vars

\* ---------------------------------------------------------------------
\* The middleware chain of one run step by step: each middleware's logic
\* before its call of Next, the job body, each middleware's logic after
\* Next returned.  runs[r].log records them in the order they happen.

\* The middlewares a job's buildMiddlewares installs, in its order of Use:
\* overlap, slack, save, mail, each only if configured.
JobMiddlewareChoices ==
    { [j \in JobIds |-> JobMiddlewares(j)],
      [j \in JobIds |-> IF j = "jOverlap" THEN <<"overlap", "jSlack">>
                                          ELSE <<"jSave", "jMail">>] }

ChainInit ==
    /\ Jobs = << >>
    /\ cronEntries = << >>
    /\ cronRunning = FALSE
    /\ isRunning = FALSE
    /\ wg = 0
    /\ mws \in JobMiddlewareChoices
    /\ running = [j \in JobIds |-> 0]
    /\ runs = [r \in RunIds |-> NoRun]
    /\ nextRun = 0
    /\ stopPc = "idle"
    /\ inFlightAtStop = {}
    /\ lastOp = "none"
    /\ lastErr = ErrNil
    /\ startLen = 0
    /\ stoppedOnce = FALSE
    /\ crashed = FALSE
    /\ rj = RjIdle

\* Context.Next enters the next middleware, which runs its logic before
\* Next; the overlap middleware that detects an overlap marks the Execution
\* skipped and returns without calling Next.
OnionEnter(r) ==
    /\ ~crashed
    /\ runs[r].pc = "chain"
    /\ runs[r].cur < Len(runs[r].chain)
    /\ LET m == runs[r].chain[runs[r].cur + 1]
       IN IF m = "overlap" /\ OverlapDetected(running, runs[r].job)
            THEN runs' = [runs EXCEPT ![r].cur = @ + 1, ![r].skipped = TRUE,
                                      ![r].pc = "post",
                                      ![r].log = Append(@, <<"pre", m>>)]
            ELSE runs' = [runs EXCEPT ![r].cur = @ + 1,
                                      ![r].log = Append(@, <<"pre", m>>)]
    /\ UNCHANGED <<Jobs, cronEntries, cronRunning, isRunning, wg, mws, running,
                   nextRun, stopPc, inFlightAtStop, lastOp, lastErr, startLen,
                   stoppedOnce, crashed, rj>>

\* Context.Next after the last middleware: Job.Run runs and returns.
OnionBody(r, failed) ==
    /\ ~crashed
    /\ runs[r].pc = "chain"
    /\ runs[r].cur = Len(runs[r].chain)
    /\ runs' = [runs EXCEPT ![r].pc = "post", ![r].failed = failed,
                            ![r].log = Append(@, <<"body", "">>)]
    /\ UNCHANGED <<Jobs, cronEntries, cronRunning, isRunning, wg, mws, running,
                   nextRun, stopPc, inFlightAtStop, lastOp, lastErr, startLen,
                   stoppedOnce, crashed, rj>>

\* Next returns into the innermost middleware still open, which runs its
\* logic after Next and returns; after the outermost one ctx.Next returns
\* to jobWrapper.Run.
OnionLeave(r) ==
    /\ ~crashed
    /\ runs[r].pc = "post"
    /\ IF runs[r].cur > 0
         THEN runs' = [runs EXCEPT ![r].cur = @ - 1,
                                   ![r].log = Append(@, <<"post", runs[r].chain[runs[r].cur]>>)]
         ELSE runs' = [runs EXCEPT ![r].pc = "unwound"]
    /\ UNCHANGED <<Jobs, cronEntries, cronRunning, isRunning, wg, mws, running,
                   nextRun, stopPc, inFlightAtStop, lastOp, lastErr, startLen,
                   stoppedOnce, crashed, rj>>

\* The scheduler is set up with the two jobs that can be registered and
\* started once; the ticks and the runs are those of Next, with the chain
\* taken step by step.
ChainSpecNext ==
    \/ \E j \in {"jOverlap", "jPlain"} : AddJob(j)
    \/ Start
    \/ \E j \in JobIds : Tick(j)
    \/ \E r \in RunIds : RunEnter(r)
    \/ \E r \in RunIds : RunStart(r)
    \/ \E r \in RunIds : OnionEnter(r)
    \/ \E r \in RunIds, failed \in BOOLEAN : OnionBody(r, failed)
    \/ \E r \in RunIds : OnionLeave(r)
    \/ \E r \in RunIds : RunStop(r)
    \/ \E r \in RunIds : RunExit(r)

SpecChain == ChainInit /\ [][ChainSpecNext]_vars

(* ------------------------------- RunJob --------------------------------- *)

\* Bound on the watch-loop iterations modelled one by one at the start of
\* the loop and just below the ceiling; the iterations in between are
\* modelled by RjWatchRunning.
MaxPolls == 2

\* watchDuration and maxProcessDuration, in milliseconds.
watchDuration == 100

maxProcessDuration == 86400000

ErrLocalImageNotFound == "couldn't find image on the host"
ErrListImages         == "docker: list images failed"
ErrPull               == "error pulling image"
ErrCreate             == "error creating exec"
ErrConnect            == "error connecting container to network"
ErrInspect            == "docker: inspect failed"
ErrStartContainer     == "docker: start failed"
ErrMaxTimeRunning     == "the job has exceed the maximum allowed time running"
ErrUnexpected         == "error unexpected, docker has returned exit code -1"
ErrNonZeroExit(code)  == "error non-zero exit code: " \o ToString(code)

\* A reading of the flag that takes every string but "false" as true.
ParseBoolLenient(str) == str # "false"

\* strconv.ParseBool; the error is dropped by the callers, which then see
\* false.
ParseBool(str) == str \in {"1", "t", "T", "TRUE", "true", "True"}

\* Values given to the Pull and Delete fields: set to true, set to false,
\* never set, set to a string that is no boolean.
FlagValues == {"true", "false", "", "yes"}

\* defaults.SetDefaults on a string field tagged default:"true": the tag's
\* value replaces the empty string.
SetDefaults(flag) == IF flag = "" THEN "true" ELSE flag

\* How the RunJob was built: by Config.build, which applies SetDefaults, or
\* by NewRunJob alone.
Builders == {"config", "new"}

FlagAtRun(built, flag) == IF built = "config" THEN SetDefaults(flag) ELSE flag

\* The RunJob at the call of Run: rawPull and rawDelete are the values given
\* to the fields, pull and delete the fields as Run reads them.
RjInputs ==
    {[pc |-> "entry", built |-> b, rawPull |-> p, rawDelete |-> d,
      pull |-> FlagAtRun(b, p), delete |-> FlagAtRun(b, d),
      image |-> i, container |-> c, network |-> n,
      pullError |-> ErrNil, searchErr |-> ErrNil, cptr |-> "nil",
      err |-> ErrNil, result |-> ErrNil, r |-> 0, polls |-> 0,
      netsLeft |-> 0, trace |-> << >>] :
        b \in Builders, p \in FlagValues, d \in FlagValues,
        i \in {"", "img"}, c \in {"", "cid"}, n \in {"", "net"}}

RjInit == SchedInit /\ rj \in RjInputs

\* RunJob.Run returns e.
RjReturn(e, event) ==
    rj' = [rj EXCEPT !.pc = "returned", !.result = e,
                     !.trace = IF event = "" THEN @ ELSE Append(@, event)]

RjGoto(pc, event) ==
    rj' = [rj EXCEPT !.pc = pc, !.trace = Append(@, event)]

\* RunJob.Run, up to the choice between image resolution and container reuse.
RjEntry ==
    /\ rj.pc = "entry"
    /\ IF rj.image # "" /\ rj.container = ""
         THEN rj' = [rj EXCEPT !.pc = IF ParseBool(rj.pull) THEN "pull" ELSE "search"]
         ELSE rj' = [rj EXCEPT !.pc = "inspect"]
    /\ UNCHANGED schedVars

\* The end of the resolution closure when no mechanism resolved the image.
\* The resolution's error with the search error checked first.
ResolutionErrorPrefersSearch(pullError, searchErr) ==
    IF searchErr # ErrNil THEN searchErr
    ELSE IF pullError # ErrNil THEN pullError
    ELSE ErrNil

ResolutionError(pullError, searchErr) ==
    IF pullError # ErrNil THEN pullError
    ELSE IF searchErr # ErrNil THEN searchErr
    ELSE ErrNil

\* The first pull without the return on success.
RjPullFallsThrough(ok) ==
    /\ rj.pc = "pull"
    /\ rj' = [rj EXCEPT !.pc = "search",
                        !.pullError = IF ok THEN ErrNil ELSE ErrPull,
                        !.trace = Append(@, IF ok THEN "pull.ok" ELSE "pull.err")]
    /\ UNCHANGED schedVars

\* Resolution with Pull true: pullImage first.
RjPull(ok) ==
    /\ rj.pc = "pull"
    /\ IF ok
         THEN RjGoto("create", "pull.ok")
         ELSE rj' = [rj EXCEPT !.pc = "search", !.pullError = ErrPull,
                               !.trace = Append(@, "pull.err")]
    /\ UNCHANGED schedVars

\* searchLocalImage on the images ListImages returned ("err": it failed).
searchLocalImage(found) ==
    IF found = "err" THEN ErrListImages
    ELSE IF found # "1" THEN ErrLocalImageNotFound
    ELSE ErrNil

\* The local search with a fallback pull after any search error.
RjSearchAnyErrorFallsBack(found) ==
    /\ rj.pc = "search"
    /\ LET searchErr == searchLocalImage(found)
           event == "search." \o found
       IN IF searchErr = ErrNil
            THEN RjGoto("create", event)
            ELSE IF ~ParseBool(rj.pull)
              THEN rj' = [rj EXCEPT !.pc = "pullFallback", !.searchErr = searchErr,
                                    !.trace = Append(@, event)]
              ELSE rj' = [rj EXCEPT !.pc = "returned", !.searchErr = searchErr,
                                    !.result = ResolutionError(rj.pullError, searchErr),
                                    !.trace = Append(@, event)]
    /\ UNCHANGED schedVars

\* Resolution: the local search and what follows it.
RjSearch(found) ==
    /\ rj.pc = "search"
    /\ LET searchErr == searchLocalImage(found)
           event == "search." \o found
       IN IF searchErr = ErrNil
            THEN RjGoto("create", event)
            ELSE IF ~ParseBool(rj.pull) /\ searchErr = ErrLocalImageNotFound
              THEN rj' = [rj EXCEPT !.pc = "pullFallback", !.searchErr = searchErr,
                                    !.trace = Append(@, event)]
              ELSE rj' = [rj EXCEPT !.pc = "returned", !.searchErr = searchErr,
                                    !.result = ResolutionError(rj.pullError, searchErr),
                                    !.trace = Append(@, event)]
    /\ UNCHANGED schedVars

\* Resolution: the pull after a local search that found no image.
RjPullFallback(ok) ==
    /\ rj.pc = "pullFallback"
    /\ IF ok
         THEN RjGoto("create", "pull.ok")
         ELSE rj' = [rj EXCEPT !.pc = "returned", !.pullError = ErrPull,
                               !.result = ResolutionError(ErrPull, rj.searchErr),
                               !.trace = Append(@, "pull.err")]
    /\ UNCHANGED schedVars

\* buildContainer: CreateContainer.
RjCreate(ok) ==
    /\ rj.pc = "create"
    /\ IF ok
         THEN rj' = [rj EXCEPT !.pc = IF rj.network # "" THEN "listNets" ELSE "start",
                               !.cptr = "new", !.trace = Append(@, "create.ok")]
         ELSE RjReturn(ErrCreate, "create.err")
    /\ UNCHANGED schedVars

\* buildContainer: FilteredListNetworks; a failure is ignored.
RjListNets(nets) ==
    /\ rj.pc = "listNets"
    /\ IF nets = -1
         THEN RjGoto("start", "listNets.err")
         ELSE rj' = [rj EXCEPT !.pc = IF nets = 0 THEN "start" ELSE "connect",
                               !.netsLeft = nets,
                               !.trace = Append(@, "listNets.ok")]
    /\ UNCHANGED schedVars

\* buildContainer: ConnectNetwork for the next matching network.
RjConnect(ok) ==
    /\ rj.pc = "connect"
    /\ IF ok
         THEN rj' = [rj EXCEPT !.pc = IF rj.netsLeft = 1 THEN "start" ELSE "connect",
                               !.netsLeft = @ - 1,
                               !.trace = Append(@, "connect.ok")]
         ELSE RjReturn(ErrConnect, "connect.err")
    /\ UNCHANGED schedVars

\* getContainer: inspect the container the caller named.
RjInspect(ok) ==
    /\ rj.pc = "inspect"
    /\ IF ok
         THEN rj' = [rj EXCEPT !.pc = "start", !.cptr = "existing",
                               !.trace = Append(@, "inspect.ok")]
         ELSE RjReturn(ErrInspect, "inspect.err")
    /\ UNCHANGED schedVars

\* startContainer.
RjStart(ok) ==
    /\ rj.pc = "start"
    /\ IF ok
         THEN RjGoto("watch", "start.ok")
         ELSE RjReturn(ErrStartContainer, "start.err")
    /\ UNCHANGED schedVars

\* The switch on the exit code at the end of watchContainer.
\* The classification without the case of exit code -1.
ExitCodeErrorNoUnexpected(code) ==
    IF code = 0 THEN ErrNil ELSE ErrNonZeroExit(code)

ExitCodeError(code) ==
    CASE code = 0  -> ErrNil
      [] code = -1 -> ErrUnexpected
      [] OTHER     -> ErrNonZeroExit(code)

\* Run after watchContainer without the return on ErrUnexpected.
AfterWatchAlwaysLogs(e, r, polls, event) ==
    rj' = [rj EXCEPT !.pc = "logs", !.err = e, !.r = r, !.polls = polls,
                     !.trace = Append(@, event)]

\* Run after watchContainer returned e.
AfterWatch(e, r, polls, event) ==
    IF e = ErrUnexpected
      THEN rj' = [rj EXCEPT !.pc = "returned", !.err = e, !.result = e, !.r = r,
                            !.polls = polls, !.trace = Append(@, event)]
      ELSE rj' = [rj EXCEPT !.pc = "logs", !.err = e, !.r = r, !.polls = polls,
                            !.trace = Append(@, event)]

ExitCodes == {0, -1, 1, 7}

\* The elapsed time r is within MaxPolls iterations of the ceiling.
NearCeiling(r) == r + MaxPolls * watchDuration >= maxProcessDuration

\* An iteration that gives up when the elapsed time reaches the ceiling.
RjWatchPollCeilingInclusive(state, code) ==
    /\ rj.pc = "watch"
    /\ LET r == rj.r + watchDuration
       IN IF r >= maxProcessDuration
            THEN AfterWatch(ErrMaxTimeRunning, r, rj.polls, "watch.maxtime")
            ELSE IF state = "err"
              THEN AfterWatch(ErrInspect, r, rj.polls + 1, "watch.err")
              ELSE IF state = "running"
                THEN /\ rj.polls < MaxPolls \/ NearCeiling(rj.r)
                     /\ rj' = [rj EXCEPT !.r = r, !.polls = @ + 1]
                ELSE AfterWatch(ExitCodeError(code), r, rj.polls + 1,
                                "watch.exit" \o ToString(code))
    /\ UNCHANGED schedVars

\* One iteration of watchContainer's loop.  state is the outcome of the
\* inspect: "err", "running", or "exited" with the exit code.
RjWatchPoll(state, code) ==
    /\ rj.pc = "watch"
    /\ LET r == rj.r + watchDuration
       IN IF r > maxProcessDuration
            THEN AfterWatch(ErrMaxTimeRunning, r, rj.polls, "watch.maxtime")
            ELSE IF state = "err"
              THEN AfterWatch(ErrInspect, r, rj.polls + 1, "watch.err")
              ELSE IF state = "running"
                THEN /\ rj.polls < MaxPolls \/ NearCeiling(rj.r)
                     /\ rj' = [rj EXCEPT !.r = r, !.polls = @ + 1]
                ELSE AfterWatch(ExitCodeError(code), r, rj.polls + 1,
                                "watch.exit" \o ToString(code))
    /\ UNCHANGED schedVars

\* The iterations of watchContainer's loop, all finding the container
\* running, that bring the elapsed time to MaxPolls iterations below the
\* ceiling.
RjWatchRunning ==
    /\ rj.pc = "watch"
    /\ ~NearCeiling(rj.r)
    /\ LET n == (maxProcessDuration - rj.r) \div watchDuration - MaxPolls
       IN rj' = [rj EXCEPT !.r = @ + n * watchDuration, !.polls = @ + n]
    /\ UNCHANGED schedVars

\* Client.Logs into the Execution's streams; a failure is a warning.
RjLogs(ok) ==
    /\ rj.pc = "logs"
    /\ LET event == IF ok THEN "logs.ok" ELSE "logs.err"
       IN IF rj.container = ""
            THEN RjGoto("delete", event)
            ELSE RjReturn(rj.err, event)
    /\ UNCHANGED schedVars

\* A deferred deleteContainer whose failure becomes Run's result.
RjDeleteReturnsError(ok) ==
    /\ rj.pc = "delete"
    /\ IF ~ParseBool(rj.delete)
         THEN RjReturn(rj.err, "")
         ELSE IF ok THEN RjReturn(rj.err, "remove.ok")
                    ELSE RjReturn("error deleting container", "remove.err")
    /\ UNCHANGED schedVars

\* The deferred deleteContainer; a failure is a warning.
RjDelete(ok) ==
    /\ rj.pc = "delete"
    /\ IF ~ParseBool(rj.delete)
         THEN RjReturn(rj.err, "")
         ELSE RjReturn(rj.err, IF ok THEN "remove.ok" ELSE "remove.err")
    /\ UNCHANGED schedVars

RjNext ==
    \/ RjEntry
    \/ \E ok \in BOOLEAN : RjPull(ok)
    \/ \E found \in {"err", "0", "1", "2"} : RjSearch(found)
    \/ \E ok \in BOOLEAN : RjPullFallback(ok)
    \/ \E ok \in BOOLEAN : RjCreate(ok)
    \/ \E nets \in -1..2 : RjListNets(nets)
    \/ \E ok \in BOOLEAN : RjConnect(ok)
    \/ \E ok \in BOOLEAN : RjInspect(ok)
    \/ \E ok \in BOOLEAN : RjStart(ok)
    \/ \E state \in {"err", "running", "exited"}, code \in ExitCodes :
          RjWatchPoll(state, code)
    \/ RjWatchRunning
    \/ \E ok \in BOOLEAN : RjLogs(ok)
    \/ \E ok \in BOOLEAN : RjDelete(ok)

SpecRunJob == RjInit /\ [][RjNext]_vars

(* ------------------------------- claims --------------------------------- *)

\* C1: when Stop's wg.Wait has returned, and so before Stop stops the cron
\* trigger and returns, every run that was registered with the join counter
\* when Stop was called has completed: it has executed its deferred wg.Done,
\* the last step of Run.
C1_StopWaitsForInFlight ==
    stopPc = "drained" => \A r \in inFlightAtStop : runs[r].pc = "done"

\* Stop is about to return and runs were in flight at its call.
C1_Witness ==
    stopPc = "drained" /\ inFlightAtStop # {}

\* C2: at the step on which a successful Stop returns, no jobWrapper.Run is
\* between its wg.Add and its wg.Done.
C2_NoRunExecutingAtStopReturn ==
    [][StopFinish => \A r \in RunIds : runs'[r].pc \notin InFlightPcs]_vars

\* C3: each job's running counter is never negative and equals the number
\* of its runs between Context.Start and the end of the run, whatever the
\* way the run ended (success, failure, skip, panic).
C3_RunningCounterMatchesRuns ==
    \A j \in JobIds :
        /\ Running(running, j) >= 0
        /\ Running(running, j) =
             Cardinality({r \in RunIds : runs[r].job = j /\ runs[r].pc \in ActivePcs})

\* C4: the join counter is never negative and equals the number of runs
\* between wg.Add(1) and wg.Done, on every exit path of Run.
C4_JoinCounterMatchesRuns ==
    wg >= 0 /\ wg = Cardinality(InFlight)

\* One run left by a panic and another run returned normally.
C4_Witness ==
    \E p, d \in RunIds : runs[p].pc = "panicked" /\ runs[d].pc = "done"

LifecycleReturn ==
    \/ \E j \in JobIds : AddJob(j)
    \/ Start
    \/ StopCall /\ ~isRunning
    \/ StopFinish

C7_FailedCallChangesNothing ==
    [][ (LifecycleReturn /\ lastErr' # ErrNil) =>
            UNCHANGED <<Jobs, isRunning, cronEntries, cronRunning, mws>> ]_vars

\* AddJob has failed on a started scheduler with a non-empty registry.
C7_Witness ==
    /\ lastOp = "AddJob" /\ lastErr \in {ErrEmptySchedule, ErrCronParse}
    /\ isRunning /\ Len(Jobs) > 0

\* Another run of r's job is between Context.Start and Context.Stop.
OtherActive(r) ==
    \E o \in RunIds \ {r} : runs[o].job = runs[r].job /\ runs[o].pc \in ActivePcs

\* Run r is about to enter the overlap middleware.
AtOverlap(r) ==
    /\ runs[r].pc = "chain"
    /\ runs[r].cur < Len(runs[r].chain)
    /\ runs[r].chain[runs[r].cur + 1] = "overlap"

Happened(event) == event \in Range(rj.trace)

PullCount == Count(rj.trace, "pull.ok") + Count(rj.trace, "pull.err")

SearchCount ==
    Count(rj.trace, "search.err") + Count(rj.trace, "search.0")
      + Count(rj.trace, "search.1") + Count(rj.trace, "search.2")

\* Run went through image resolution and has left it.
ResolutionOver ==
    /\ rj.image # "" /\ rj.container = ""
    /\ rj.pc \notin {"entry", "pull", "search", "pullFallback"}

\* Run has reached buildContainer.
ReachedCreate ==
    rj.pc = "create" \/ Happened("create.ok") \/ Happened("create.err")

\* C9: with Pull true and a successful pull no local search is made, with
\* Pull false and a local search finding exactly one image no pull is made,
\* and in both cases Run goes on to create the container.
C9_FirstSuccessExcludesOther ==
    /\ (ParseBool(rj.pull) /\ Happened("pull.ok")) =>
          (SearchCount = 0 /\ rj.pc # "search" /\ ReachedCreate)
    /\ (~ParseBool(rj.pull) /\ Happened("search.1")) =>
          (PullCount = 0 /\ rj.pc # "pullFallback" /\ ReachedCreate)

\* Run has returned after a successful first pull and a created container.
C9_Witness ==
    /\ rj.pc = "returned" /\ ParseBool(rj.pull)
    /\ Happened("pull.ok") /\ Happened("create.ok")

\* C10: with Pull false, once resolution is over a pull was made if and
\* only if the local search ended in ErrLocalImageNotFound; then a
\* successful pull leads to buildContainer and a failed one makes Run
\* return the pull error; any other search error is returned with no pull;
\* and no run makes more than one pull.
C10_FallbackPull ==
    /\ PullCount <= 1
    /\ (ResolutionOver /\ ~ParseBool(rj.pull)) =>
          /\ PullCount = 1 <=> (Happened("search.0") \/ Happened("search.2"))
          /\ PullCount = 1 <=> rj.searchErr = ErrLocalImageNotFound
          /\ Happened("pull.ok") => ReachedCreate
          /\ Happened("pull.err") =>
                (rj.pc = "returned" /\ rj.result = ErrPull /\ ~ReachedCreate)
          /\ Happened("search.err") =>
                (rj.pc = "returned" /\ rj.result = ErrListImages /\ PullCount = 0)

\* Run has returned the error of the pull that followed a local search
\* matching several images.
C10_Witness ==
    /\ rj.pc = "returned" /\ ~ParseBool(rj.pull)
    /\ Happened("search.2") /\ Happened("pull.err") /\ rj.result = ErrPull

\* C11: when the watch found the container stopped, Run's result is nil for
\* exit code 0, ErrUnexpected for exit code -1, and for any other exit code
\* the error whose text is "error non-zero exit code: " followed by that
\* code; the error held between the watch and the return is the same.
C11_ExitCodeClassification ==
    /\ Happened("watch.exit0") =>
          (rj.err = ErrNil /\ (rj.pc = "returned" => rj.result = ErrNil))
    /\ Happened("watch.exit-1") =>
          (rj.pc = "returned" /\ rj.result = ErrUnexpected)
    /\ Happened("watch.exit1") =>
          /\ rj.err = "error non-zero exit code: 1"
          /\ rj.pc = "returned" => rj.result = "error non-zero exit code: 1"
    /\ Happened("watch.exit7") =>
          /\ rj.err = "error non-zero exit code: 7"
          /\ rj.pc = "returned" => rj.result = "error non-zero exit code: 7"
    /\ rj.pc = "returned" /\ rj.result = ErrUnexpected =>
          Happened("watch.exit-1")

\* Run has returned the error carrying exit code 7.
C11_Witness ==
    /\ rj.pc = "returned" /\ Happened("watch.exit7")
    /\ rj.result = "error non-zero exit code: 7"

\* The watch found the container stopped.
WatchSawExit == \E code \in ExitCodes : Happened("watch.exit" \o ToString(code))

\* C12: the watch makes one inspect per interval of elapsed time and never
\* more than ceiling / interval of them; while it loops the elapsed time is
\* within the ceiling; it gives up with ErrMaxTimeRunning exactly in the
\* first iteration whose elapsed time exceeds the ceiling, after every
\* earlier iteration inspected and without an inspect in that iteration or
\* later; and a container seen stopped was seen within the ceiling and is
\* not reported as ErrMaxTimeRunning.
C12_WatchTerminates ==
    /\ rj.polls <= maxProcessDuration \div watchDuration
    /\ rj.pc = "watch" =>
          (rj.r = rj.polls * watchDuration /\ rj.r <= maxProcessDuration)
    /\ Happened("watch.maxtime") =>
          /\ rj.err = ErrMaxTimeRunning
          /\ rj.r > maxProcessDuration
          /\ rj.r - watchDuration <= maxProcessDuration
          /\ rj.polls = maxProcessDuration \div watchDuration
          /\ ~WatchSawExit /\ ~Happened("watch.err")
          /\ rj.pc \in {"logs", "delete", "returned"}
    /\ (WatchSawExit \/ Happened("watch.err")) =>
          /\ rj.r <= maxProcessDuration
          /\ rj.r = rj.polls * watchDuration
          /\ rj.err # ErrMaxTimeRunning
          /\ rj.pc \in {"logs", "delete", "returned"}

\* Run has returned ErrMaxTimeRunning for a container that never stopped.
C12_Witness ==
    /\ rj.pc = "returned" /\ Happened("watch.maxtime")
    /\ rj.result = ErrMaxTimeRunning

\* A container seen stopped by the last inspect the ceiling allows.
C12_WitnessLastInspect ==
    /\ WatchSawExit /\ rj.r = maxProcessDuration

\* Run holds a container: one it created or the one the caller named.
ContainerAcquired == Happened("create.ok") \/ Happened("inspect.ok")

LogsCount == Count(rj.trace, "logs.ok") + Count(rj.trace, "logs.err")

\* C13 as stated: whenever Run returns holding a container, the logs were
\* fetched.
C13_LogsWheneverContainer ==
    (rj.pc = "returned" /\ ContainerAcquired) => LogsCount >= 1

\* C13: the logs are fetched at most once and only after the watch; when
\* Run returns they were fetched exactly when the container was started and
\* the watch ended with anything but exit code -1 (exit 0, another exit
\* code, an inspect error, the ceiling); a failed fetch leaves Run's result
\* the watch's error.
C13_LogsAfterWatch ==
    /\ LogsCount <= 1
    /\ LogsCount = 1 => (Happened("start.ok") /\ rj.pc \in {"delete", "returned"})
    /\ rj.pc = "returned" =>
          /\ LogsCount = 1 <=>
                (Happened("start.ok") /\ ~Happened("watch.exit-1"))
          /\ Happened("logs.err") => rj.result = rj.err

\* Run has returned ErrMaxTimeRunning after a failed fetch of the logs.
C13_Witness ==
    /\ rj.pc = "returned" /\ Happened("watch.maxtime")
    /\ Happened("logs.err") /\ rj.result = ErrMaxTimeRunning

RemoveAttempted == Happened("remove.ok") \/ Happened("remove.err")

\* C14: when Run returns, the removal of the container was attempted if and
\* only if this run created the container and the Delete flag reads true,
\* on every return path after the creation.
C14_RemovedIffCreatedAndDelete ==
    rj.pc = "returned" =>
        (RemoveAttempted <=> (Happened("create.ok") /\ ParseBool(rj.delete)))

\* The error the watch ended with, read from the events of the run.
WatchResult ==
    CASE Happened("watch.maxtime") -> ErrMaxTimeRunning
      [] Happened("watch.err")     -> ErrInspect
      [] Happened("watch.exit0")   -> ErrNil
      [] Happened("watch.exit-1")  -> ErrUnexpected
      [] Happened("watch.exit1")   -> "error non-zero exit code: 1"
      [] Happened("watch.exit7")   -> "error non-zero exit code: 7"
      [] OTHER                     -> "no watch result"

\* C15: once the container was started, Run returns exactly the error the
\* watch ended with, nil included, whether or not the fetch of the logs or
\* the removal of the container failed.
C15_ResultIsWatchResult ==
    (rj.pc = "returned" /\ Happened("start.ok")) => rj.result = WatchResult

\* Run has returned nil although both the fetch of the logs and the removal
\* failed.
C15_Witness ==
    /\ rj.pc = "returned" /\ Happened("logs.err") /\ Happened("remove.err")
    /\ Happened("watch.exit0") /\ rj.result = ErrNil

ResolutionSucceeded == Happened("pull.ok") \/ Happened("search.1")

\* The error of the local search, read from the events of the run.
SearchError ==
    CASE Happened("search.err") -> ErrListImages
      [] Happened("search.0") \/ Happened("search.2") -> ErrLocalImageNotFound
      [] OTHER -> ErrNil

\* C18: Run reaches buildContainer after a resolution only if a pull or the
\* local search succeeded; when neither did, Run has returned, without
\* creating a container, the pull error if a pull failed (also when the
\* search failed too) and otherwise the error of the search, never nil.
C18_ResolutionFailure ==
    /\ ReachedCreate => ResolutionSucceeded
    /\ (ResolutionOver /\ ~ResolutionSucceeded) =>
          /\ rj.pc = "returned" /\ ~ReachedCreate
          /\ rj.result # ErrNil
          /\ rj.result = IF Happened("pull.err") THEN ErrPull ELSE SearchError

\* Run has returned the pull error after the pull and the listing of the
\* local images both failed.
C18_Witness ==
    /\ rj.pc = "returned" /\ Happened("pull.err") /\ Happened("search.err")
    /\ rj.result = ErrPull

\* Run has returned the search error without any pull.
C18_WitnessSearchOnly ==
    /\ rj.pc = "returned" /\ PullCount = 0 /\ rj.result = ErrListImages

\* Run went into image resolution.
InResolution == rj.image # "" /\ rj.container = "" /\ rj.pc # "entry"

\* The resolution begins with the remote pull.
PullFirst ==
    \/ rj.pc = "pull"
    \/ Len(rj.trace) >= 1 /\ rj.trace[1] \in {"pull.ok", "pull.err"}

\* Run has returned through the cleanup of a container it created.
ReachedCleanup == rj.pc = "returned" /\ LogsCount = 1 /\ rj.container = ""

\* C19 as stated: a RunJob whose Pull or Delete was given anything but
\* "false" (never set, or no boolean) pulls first and removes the container
\* at cleanup.
C19_UnsetOrInvalidIsTrue ==
    /\ (InResolution /\ rj.rawPull # "false") => PullFirst
    /\ (ReachedCleanup /\ rj.rawDelete # "false") => RemoveAttempted

\* C19: Run pulls first exactly when Pull was set to "true" or was left
\* unset on a RunJob built by the configuration, and the cleanup removes
\* the container exactly when the same holds of Delete; an unset flag on a
\* RunJob built by NewRunJob alone, and a string that is no boolean, act as
\* "false".
C19_FlagsAsParsed ==
    /\ InResolution =>
          (PullFirst <=>
              (rj.rawPull = "true" \/ (rj.built = "config" /\ rj.rawPull = "")))
    /\ ReachedCleanup =>
          (RemoveAttempted <=>
              (rj.rawDelete = "true"
                 \/ (rj.built = "config" /\ rj.rawDelete = "")))

\* A RunJob built by the configuration with both flags unset has pulled
\* first and removed its container.
C19_Witness ==
    /\ ReachedCleanup /\ rj.built = "config"
    /\ rj.rawPull = "" /\ rj.rawDelete = ""
    /\ rj.image # "" /\ PullFirst /\ RemoveAttempted

\* A RunJob whose flags are no booleans has searched first and kept its
\* container.
C19_WitnessInvalid ==
    /\ ReachedCleanup /\ rj.rawPull = "yes" /\ rj.rawDelete = "yes"
    /\ rj.image # "" /\ ~PullFirst /\ ~RemoveAttempted

\* The events of a run that enters the first k middlewares of chain, runs
\* the body if withBody, and leaves the middlewares innermost first.
Onion(chain, k, withBody) ==
    [i \in 1..k |-> <<"pre", chain[i]>>]
      \o (IF withBody THEN << <<"body", "">> >> ELSE << >>)
      \o [i \in 1..k |-> <<"post", chain[k + 1 - i]>>]

IsPrefix(s, t) == Len(s) <= Len(t) /\ s = SubSeq(t, 1, Len(s))

IsGlobal(m) == m \in Range(Globals)

\* The job's middlewares in their order of registration: its own, in the
\* order its buildMiddlewares installed them, and the globals Start added.
Registered(r) == IF runs[r].job \in JobIds THEN mws[runs[r].job] ELSE << >>

\* C16: the events of every run are, at every moment, an initial part of
\* the onion over the job's middlewares in their order of registration:
\* the middlewares entered in that order, the body at most once and only
\* inside all of them, the middlewares left in the reverse order; a run
\* whose chain has returned has the whole onion, with the body unless a
\* middleware skipped it; and no global middleware's logic before Next
\* precedes a job middleware's, no job middleware's logic after Next
\* precedes a global's.
C16_OnionOrder ==
    \A r \in RunIds :
      LET log == runs[r].log
      IN /\ \E k \in 0..Len(Registered(r)), b \in BOOLEAN :
               /\ b => k = Len(Registered(r))
               /\ IsPrefix(log, Onion(Registered(r), k, b))
               /\ runs[r].pc \in {"unwound", "stopped"} =>
                     /\ log = Onion(Registered(r), k, b)
                     /\ b <=> ~runs[r].skipped
         /\ Count(log, <<"body", "">>) <= 1
         /\ \A i, j \in DOMAIN log :
               i < j =>
                 /\ ~(/\ log[i][1] = "pre" /\ IsGlobal(log[i][2])
                      /\ log[j][1] = "pre" /\ ~IsGlobal(log[j][2]))
                 /\ ~(/\ log[i][1] = "post" /\ ~IsGlobal(log[i][2])
                      /\ log[j][1] = "post" /\ IsGlobal(log[j][2]))

\* The chain of a run has returned after two job middlewares, the two
\* globals and the body.
C16_Witness ==
    \E r \in RunIds :
        /\ runs[r].pc = "unwound" /\ ~runs[r].skipped
        /\ runs[r].log = << <<"pre", "overlap">>, <<"pre", "jSlack">>,
                            <<"pre", "gSlack">>, <<"pre", "gSave">>,
                            <<"body", "">>,
                            <<"post", "gSave">>, <<"post", "gSlack">>,
                            <<"post", "jSlack">>, <<"post", "overlap">> >>

\* The chain of a run has returned after the overlap middleware skipped
\* the rest.
C16_WitnessSkipped ==
    \E r \in RunIds :
        /\ runs[r].pc = "unwound" /\ runs[r].skipped
        /\ runs[r].log = << <<"pre", "overlap">>, <<"post", "overlap">> >>

\* The steps of an Execution: the tick, its creation in jobWrapper.Run,
\* Context.Start, the chain with or without the body, Context.Stop, the
\* return of jobWrapper.Run; a panic of the body ends it unstopped.
ExecutionSteps ==
    { <<"none", "fired">>, <<"fired", "entered">>, <<"entered", "chain">>,
      <<"chain", "body">>, <<"chain", "unwound">>, <<"body", "unwound">>,
      <<"body", "panicked">>, <<"unwound", "stopped">>, <<"stopped", "done">> }

Started(r) == runs[r].pc = "entered" /\ runs'[r].pc = "chain"

Stopped(r) == runs[r].pc = "unwound" /\ runs'[r].pc = "stopped"

\* C17: every tick takes a run that no tick has used; a run keeps its job;
\* its Execution goes through creation, Context.Start, the chain and
\* Context.Stop in this order and never back, so none is started or stopped
\* twice; Context.Start and Context.Stop act on the job's counter exactly at
\* these two steps; and a run whose chain has returned can take the step
\* of Context.Stop, which is then its only step.
C17_ExecutionLifecycle ==
    /\ [](\A r \in RunIds :
            (runs[r].pc = "unwound" /\ ~crashed) => ENABLED RunStop(r))
    /\ [][ /\ \A r \in RunIds :
               /\ runs'[r].pc # runs[r].pc =>
                     <<runs[r].pc, runs'[r].pc>> \in ExecutionSteps
               /\ (runs[r].pc = "none" /\ runs'[r].pc = "fired") =>
                     (r = nextRun + 1 /\ nextRun' = r)
               /\ runs[r].pc # "none" => runs'[r].job = runs[r].job
               /\ Started(r) =>
                     running' = [running EXCEPT ![runs[r].job] = @ + 1]
               /\ Stopped(r) =>
                     running' = [running EXCEPT ![runs[r].job] = @ - 1]
           /\ running' # running =>
                 \E r \in RunIds : Started(r) \/ Stopped(r)
          ]_vars

\* Two ticks of one job: the Execution of the first is done with, that of
\* the second has been stopped.
C17_Witness ==
    \E r1, r2 \in RunIds :
        /\ r1 # r2 /\ runs[r1].job = runs[r2].job
        /\ runs[r1].pc = "done" /\ runs[r2].pc = "stopped"

\* ---------------------------------------------------------------------
\* The scheduler under a cron trigger that never runs out of ticks: a tick
\* takes any run whose previous use is over, so RunIds bounds the runs in
\* flight at once and not the ticks of a behaviour.
CronFire(j, r) ==
    /\ ~crashed
    /\ cronRunning
    /\ j \in Range(cronEntries)
    /\ runs[r].pc \in {"none", "done"}
    /\ runs' = [runs EXCEPT ![r] = [NoRun EXCEPT !.job = j, !.pc = "fired"]]
    /\ UNCHANGED <<Jobs, cronEntries, cronRunning, isRunning, wg, mws, running,
                   nextRun, stopPc, inFlightAtStop, lastOp, lastErr, startLen,
                   stoppedOnce, crashed, rj>>

\* One job, no panic: every run that starts can complete.
StopSpecNext ==
    \/ AddJob("jPlain")
    \/ Start
    \/ StopCall
    \/ StopDrained
    \/ StopFinish
    \/ \E j \in JobIds, r \in RunIds : CronFire(j, r)
    \/ \E r \in RunIds : RunEnter(r)
    \/ \E r \in RunIds : RunStart(r)
    \/ \E r \in RunIds : ChainNext(r)
    \/ \E r \in RunIds, failed \in BOOLEAN : BodyReturn(r, failed)
    \/ \E r \in RunIds : RunStop(r)
    \/ \E r \in RunIds : RunExit(r)

\* Every goroutine of a run keeps being scheduled, so every run completes;
\* wg.Wait returns if the counter is zero again and again; the caller of
\* Stop goes on after wg.Wait.  Nothing obliges the caller to call Start or
\* Stop, nor the trigger to fire.
StopFairness ==
    /\ \A r \in RunIds :
          /\ WF_vars(RunEnter(r))
          /\ WF_vars(RunStart(r))
          /\ WF_vars(ChainNext(r))
          /\ WF_vars(\E failed \in BOOLEAN : BodyReturn(r, failed))
          /\ WF_vars(RunStop(r))
          /\ WF_vars(RunExit(r))
    /\ SF_vars(StopDrained)
    /\ WF_vars(StopFinish)

SpecStop == Init /\ [][StopSpecNext]_vars /\ StopFairness

\* C20: whenever Stop is waiting on a running scheduler, it eventually
\* returns with the running flag off.
C20_StopTerminates ==
    (stopPc = "wait") ~> (stopPc = "idle" /\ ~isRunning)

====
